---- MODULE Spec2Model ----
(***************************************************************************)
(* Model of the document evaluation service of akiyoshiyagi/story          *)
(* (backend/app/services/evaluation_service.py and the catalogs it reads). *)
(*                                                                         *)
(* Conventions                                                             *)
(*  - a Python str is a sequence of one-character strings; the keywords    *)
(*    the parser looks for are single symbols of the reply alphabet;       *)
(*  - Japanese literals of the source are written as ASCII glosses, the     *)
(*    original is given in the comment next to each of them;               *)
(*  - a Python float is an exact rational [n, d] (d > 0, lowest terms);     *)
(*  - a Python value of unknown type is a record [t, s, l]: its type tag,   *)
(*    its characters when it is a str, its items when it is a list.        *)
(***************************************************************************)
EXTENDS Integers, Sequences, FiniteSets, TLC

(***************************************************************************)
(* Bounds of the model                                                     *)
(***************************************************************************)
MaxLen == 2        \* longest title / full_text / summary string drawn
MaxScript == 2     \* longest scripted sequence of oracle outcomes
MaxText == 3       \* longest reply text handed to the parser directly
MaxEvals == 2      \* longest evaluation list handed to an aggregator directly
MaxRuns == 3       \* most calls of evaluate_document on one service instance
MaxSection == 1    \* longest section text handed to the scope selector directly
MaxRetries == 7    \* largest configured OPENAI_MAX_RETRIES

(***************************************************************************)
(* Exact rationals for Python floats                                       *)
(***************************************************************************)
RECURSIVE Gcd(_, _)
Gcd(a, b) == IF b = 0 THEN a ELSE Gcd(b, a % b)

Abs(a) == IF a < 0 THEN -a ELSE a

Rat(n, d) ==
  LET g == Gcd(Abs(n), d)
  IN  IF n = 0 THEN [n |-> 0, d |-> 1] ELSE [n |-> n \div g, d |-> d \div g]

RAdd(x, y) == Rat(x.n * y.d + y.n * x.d, x.d * y.d)
RMul(x, y) == Rat(x.n * y.n, x.d * y.d)
RDiv(x, y) == Rat(x.n * y.d, x.d * y.n)        \* y.n > 0
RLe(x, y)  == x.n * y.d <= y.n * x.d
RLt(x, y)  == x.n * y.d < y.n * x.d
RZero == Rat(0, 1)
ROne  == Rat(1, 1)
Tenths(k) == Rat(k, 10)

(***************************************************************************)
(* Python values and str.strip()                                           *)
(***************************************************************************)
Whitespace == {" ", "\n"}

RECURSIVE lstrip(_)
lstrip(s) == IF s # <<>> /\ Head(s) \in Whitespace THEN lstrip(Tail(s)) ELSE s

RECURSIVE rstrip(_)
rstrip(s) ==
  IF s # <<>> /\ s[Len(s)] \in Whitespace THEN rstrip(SubSeq(s, 1, Len(s) - 1)) ELSE s

strip(s) == rstrip(lstrip(s))

Str(s)   == [t |-> "str",  s |-> s,    l |-> <<>>]
List(l)  == [t |-> "list", s |-> <<>>, l |-> l]
NoneV    == [t |-> "none", s |-> <<>>, l |-> <<>>]
IntV     == [t |-> "int",  s |-> <<>>, l |-> <<>>]
DictV    == [t |-> "dict", s |-> <<>>, l |-> <<>>]

\* len(x) and x[:100] raise TypeError on None and on a number;
\* x[:100] also raises on a dict (a slice is not a key of it).
HasLen(x)    == x.t \in {"str", "list", "dict"}
Sliceable(x) == x.t \in {"str", "list"}

(***************************************************************************)
(* The criteria catalog: models/criteria_info.py, config/criteria_mapping.py *)
(***************************************************************************)
\* CriteriaInfo.__post_init__: empty criteria_weights become uniform weights
\* 1.0 / len(criteria_ids).  The dataclass has exactly these six fields.
CriteriaInfo(id, display_name, priority, criteria_ids, max_score) ==
  [id |-> id, display_name |-> display_name, priority |-> priority,
   criteria_ids |-> criteria_ids, max_score |-> max_score,
   criteria_weights |->
     [c \in {criteria_ids[i] : i \in 1..Len(criteria_ids)} |->
        Rat(1, Len(criteria_ids))]]

CRITERIA_PRIORITY ==
  [FULL_TEXT_RHETORIC |-> 1, SUMMARY_LOGIC_FLOW |-> 2,
   SUMMARY_INTERNAL_LOGIC |-> 3, SUMMARY_STORY_LOGIC |-> 4,
   STORY_INTERNAL_LOGIC |-> 5, DETAIL_RHETORIC |-> 6]

\* Criteria ids are ASCII glosses of the Japanese names of the source, in
\* the order of the source lists.
CRITERIA_MAPPING ==
  [FULL_TEXT_RHETORIC |->
     CriteriaInfo("FULL_TEXT_RHETORIC", "FullTextRhetoric",
                  CRITERIA_PRIORITY.FULL_TEXT_RHETORIC,
                  <<"MinimalRhetoric", "Rhetoric">>, 20),
   SUMMARY_LOGIC_FLOW |->
     CriteriaInfo("SUMMARY_LOGIC_FLOW", "SummaryLogicFlow",
                  CRITERIA_PRIORITY.SUMMARY_LOGIC_FLOW,
                  <<"PreviousReview", "SCQA", "TransitionConjRepeat">>, 25),
   SUMMARY_INTERNAL_LOGIC |->
     CriteriaInfo("SUMMARY_INTERNAL_LOGIC", "SummaryInternalLogic",
                  CRITERIA_PRIORITY.SUMMARY_INTERNAL_LOGIC,
                  <<"ConjValidity", "SummaryLayerConj", "PrevSummaryContinuity">>, 15),
   SUMMARY_STORY_LOGIC |->
     CriteriaInfo("SUMMARY_STORY_LOGIC", "SummaryStoryLogic",
                  CRITERIA_PRIORITY.SUMMARY_STORY_LOGIC,
                  <<"MessageLayerSequence", "SequenceEvaluation", "EvidenceToClaim">>, 20),
   STORY_INTERNAL_LOGIC |->
     CriteriaInfo("STORY_INTERNAL_LOGIC", "StoryInternalLogic",
                  CRITERIA_PRIORITY.STORY_INTERNAL_LOGIC,
                  <<"ConjAppropriateness", "TransitionConjDouble", "NoNeedlessNumbering">>, 10),
   DETAIL_RHETORIC |->
     CriteriaInfo("DETAIL_RHETORIC", "DetailRhetoric",
                  CRITERIA_PRIORITY.DETAIL_RHETORIC,
                  <<"MessageBodyConsistency">>, 10)]

\* sorted(CRITERIA_MAPPING.items(), key=lambda x: x[1].priority): the
\* category ids in ascending priority.
RECURSIVE SortByPriority(_)
SortByPriority(ids) ==
  IF ids = {} THEN <<>>
  ELSE LET first == CHOOSE c \in ids :
                      \A o \in ids : CRITERIA_MAPPING[c].priority <= CRITERIA_MAPPING[o].priority
       IN  <<first>> \o SortByPriority(ids \ {first})

sorted_categories == SortByPriority(DOMAIN CRITERIA_MAPPING)

(***************************************************************************)
(* prompt_template/prompt.py: the criteria list and the prompt template    *)
(***************************************************************************)
\* One dict of EVALUATION_CRITERIA.  The keys of every dict of the source
\* are name, description, max_score, priority, applicable_to and prompt.
Criterion(name, priority, max_score, applicable_to) ==
  [name |-> name, description |-> "description", max_score |-> max_score,
   priority |-> priority, applicable_to |-> applicable_to, prompt |-> "prompt"]

EVALUATION_CRITERIA ==
  << Criterion("MinimalRhetoric", 1, 7, {"FULL_SUMMARY_AND_STORY"}),
     Criterion("PreviousReview", 2, 8, {"FULL_SUMMARY"}),
     Criterion("SCQA", 3, 8, {"FULL_SUMMARY"}),
     Criterion("TransitionConjRepeat", 4, 7, {"FULL_SUMMARY"}),
     Criterion("ConjValidity", 5, 7, {"CONSECUTIVE_SUMMARY"}),
     Criterion("SummaryLayerConj", 6, 7, {"CONSECUTIVE_SUMMARY"}),
     Criterion("PrevSummaryContinuity", 7, 7, {"CONSECUTIVE_SUMMARY"}),
     Criterion("MessageLayerSequence", 8, 7, {"SUMMARY_STORY_BLOCK"}),
     Criterion("SequenceEvaluation", 9, 7, {"SUMMARY_STORY_BLOCK"}),
     Criterion("EvidenceToClaim", 10, 7, {"SUMMARY_STORY_BLOCK"}),
     Criterion("ConjAppropriateness", 11, 7, {"SUMMARY_WISE_STORY_BLOCK"}),
     Criterion("TransitionConjDouble", 12, 7, {"SUMMARY_WISE_STORY_BLOCK"}),
     Criterion("NoNeedlessNumbering", 13, 7, {"SUMMARY_WISE_STORY_BLOCK"}),
     Criterion("MessageBodyConsistency", 14, 7, {"STORY_WISE_BODY_BLOCK"}),
     Criterion("Rhetoric", 15, 7, {"FULL_SUMMARY_AND_STORY"}) >>

\* The replacement fields of EVALUATION_PROMPT_TEMPLATE.
EVALUATION_PROMPT_TEMPLATE == {"description", "target_type", "name", "text"}

\* str.format(**kwargs) raises KeyError when a replacement field of the
\* template is not among the keyword arguments.
FormatRaises(template, kwargs) == ~(template \subseteq kwargs)

(***************************************************************************)
(* EvaluationService: helpers                                              *)
(***************************************************************************)
\* Feedback texts of the source, by gloss:
\*   FB_TEXT_EMPTY      "evaluation target text is empty"
\*   FB_NO_RESULT       "no evaluation result could be generated"
\*   FB_EVAL_ERROR      "an error occurred during evaluation"
\*   FB_NO_CRITERIA     "evaluation criterion not found"
\*   FB_NO_DESCRIPTION  "criterion description not defined"
\*   FB_API_EMPTY       "the API response is empty"
\*   FB_RESULT_EMPTY    "the evaluation result is empty"
\*   FB_API_ERROR       "an OpenAI API error occurred"
\*   FB_NO_PROBLEM      "no problem found, criteria met"

\* models/evaluation.py EvaluationResult: criteria_id, score, feedback and
\* category; the keyword arguments target_text and position are not fields
\* of the model and are dropped by pydantic.
EvaluationResult(criteria_id, category, score, feedback) ==
  [criteria_id |-> criteria_id, category |-> category, score |-> score,
   feedback |-> feedback]

Comment(criteria_id, content, score) ==
  [criteria_id |-> criteria_id, content |-> content, score |-> score]

LocationComments(location, comments) ==
  [location |-> location, comments |-> comments]

\* A Python value that is None or a list.
PyNone     == [isNone |-> TRUE,  items |-> <<>>]
PyList(xs) == [isNone |-> FALSE, items |-> xs]
Falsy(v)   == v.isNone \/ v.items = <<>>

\* "\n".join(parts)
RECURSIVE JoinLines(_)
JoinLines(parts) ==
  IF parts = <<>> THEN <<>>
  ELSE IF Len(parts) = 1 THEN parts[1]
  ELSE parts[1] \o <<"\n">> \o JoinLines(Tail(parts))

\* [p.strip() for p in paragraphs if isinstance(p, str) and p.strip()]
RECURSIVE StoryParagraphs(_)
StoryParagraphs(items) ==
  IF items = <<>> THEN <<>>
  ELSE LET p == Head(items)
       IN  IF p.t = "str" /\ strip(p.s) # <<>>
           THEN <<strip(p.s)>> \o StoryParagraphs(Tail(items))
           ELSE StoryParagraphs(Tail(items))

\* The document_structure dict built by evaluate_document.
DocumentStructure(title, summary, paragraphs, full_text) ==
  [title   |-> strip(title.s),
   summary |-> IF summary.t = "str" THEN strip(summary.s) ELSE <<>>,
   story   |-> JoinLines(StoryParagraphs(paragraphs.l)),
   body    |-> strip(full_text.s),
   structure |->
     [summary |-> IF summary.t = "str" /\ strip(summary.s) # <<>>
                  THEN <<strip(summary.s)>> ELSE <<>>,
      story |-> StoryParagraphs(paragraphs.l),
      relationships |-> <<>>]]

NoStructure ==
  [title |-> <<>>, summary |-> <<>>, story |-> <<>>, body |-> <<>>,
   structure |-> [summary |-> <<>>, story |-> <<>>, relationships |-> <<>>]]

\* The f-strings of _get_evaluation_text: every line of the literal starts
\* with the twelve spaces of the source indentation.
Indent == <<" ", " ", " ", " ", " ", " ", " ", " ", " ", " ", " ", " ">>
TextLine(x) == <<"\n">> \o Indent \o x

_get_evaluation_text(document_structure, applicable_to) ==
  LET summaryBlock == TextLine(<<"[SUMMARY]">>) \o TextLine(document_structure.summary)
      storyBlock   == TextLine(<<"[STORY]">>) \o TextLine(document_structure.story)
      bodyBlock    == TextLine(<<"[BODY]">>) \o TextLine(document_structure.body)
      relation     == TextLine(<<"[RELATION]">>) \o TextLine(<<"note">>)
      blank        == TextLine(<<>>)
      target_text ==
        IF "FULL_DOCUMENT" \in applicable_to
          THEN summaryBlock \o blank \o storyBlock \o blank \o bodyBlock \o blank
        ELSE IF "SUMMARY_ONLY" \in applicable_to
          THEN summaryBlock \o blank
        ELSE IF "SUMMARY_AND_STORY" \in applicable_to
          THEN summaryBlock \o blank \o storyBlock \o blank \o relation \o blank
        ELSE IF "STORY_AND_BODY" \in applicable_to
          THEN storyBlock \o blank \o bodyBlock \o blank \o relation \o blank
        ELSE <<>>
  IN  strip(target_text)

\* The definition of _parse_evaluation_text in force: the class body defines
\* the method twice and the second definition (a bare "pass") replaces the
\* first, so every call returns None.
_parse_evaluation_text(evaluation_text, criteria_id, priority, applicable_to, document_structure) ==
  PyNone

(***************************************************************************)
(* The oracle (Azure OpenAI chat completion)                               *)
(***************************************************************************)
\* One outcome of client.chat.completions.create: it raises, it answers
\* without choices, or it answers with a content (<<>> is an empty or
\* missing content).
OracleRaise     == [kind |-> "raise",     text |-> <<>>]
OracleNoChoices == [kind |-> "nochoices", text |-> <<>>]
OracleText(t)   == [kind |-> "text",      text |-> t]

\* The k-th call of a run is answered by the k-th outcome of the script;
\* the last outcome answers every later call.
ScriptOutcome(script, k) == script[IF k <= Len(script) THEN k ELSE Len(script)]

(***************************************************************************)
(* EvaluationService._evaluate_single_criteria                             *)
(***************************************************************************)
\* next((c for c in EVALUATION_CRITERIA if c['id'] == criteria_id), None):
\* c['id'] raises KeyError on a dict without the key "id".
RECURSIVE FindCriteria(_, _)
FindCriteria(criteria_id, i) ==
  IF i > Len(EVALUATION_CRITERIA) THEN [raised |-> FALSE, index |-> 0]
  ELSE IF "id" \notin DOMAIN EVALUATION_CRITERIA[i] THEN [raised |-> TRUE, index |-> 0]
  ELSE IF EVALUATION_CRITERIA[i].id = criteria_id THEN [raised |-> FALSE, index |-> i]
  ELSE FindCriteria(criteria_id, i + 1)

SingleResult(criteria_id, score, feedback, called) ==
  [results |-> <<EvaluationResult(criteria_id, criteria_id, score, feedback)>>,
   called |-> called]

_evaluate_single_criteria(criteria_id, document_structure, outcome) ==
  LET lookup == FindCriteria(criteria_id, 1)
  IN
  IF lookup.raised THEN SingleResult(criteria_id, RZero, "FB_EVAL_ERROR", FALSE)
  ELSE IF lookup.index = 0 THEN SingleResult(criteria_id, RZero, "FB_NO_CRITERIA", FALSE)
  ELSE
    LET criteria == EVALUATION_CRITERIA[lookup.index]
        applicable_to == IF "applicable_to" \in DOMAIN criteria
                         THEN criteria.applicable_to ELSE {"FULL_DOCUMENT"}
        priority == IF "priority" \in DOMAIN criteria THEN criteria.priority ELSE 1
        target_text == _get_evaluation_text(document_structure, applicable_to)
    IN
    IF "description" \notin DOMAIN criteria
      THEN SingleResult(criteria_id, RZero, "FB_NO_DESCRIPTION", FALSE)
    ELSE IF target_text = <<>>
      THEN SingleResult(criteria_id, RZero, "FB_TEXT_EMPTY", FALSE)
    ELSE IF FormatRaises(EVALUATION_PROMPT_TEMPLATE,
                         {"criteria_name", "criteria_description", "target_text"})
      THEN SingleResult(criteria_id, RZero, "FB_EVAL_ERROR", FALSE)
    ELSE IF outcome.kind = "raise"
      THEN SingleResult(criteria_id, RZero, "FB_API_ERROR", TRUE)
    ELSE IF outcome.kind = "nochoices"
      THEN SingleResult(criteria_id, RZero, "FB_API_EMPTY", TRUE)
    ELSE IF outcome.text = <<>>
      THEN SingleResult(criteria_id, RZero, "FB_RESULT_EMPTY", TRUE)
    ELSE
      LET evaluation_results ==
            _parse_evaluation_text(outcome.text, criteria_id, priority,
                                   applicable_to, document_structure)
      IN  IF Falsy(evaluation_results)
          THEN SingleResult(criteria_id, ROne, "FB_NO_PROBLEM", TRUE)
          ELSE [results |-> evaluation_results.items, called |-> TRUE]

(***************************************************************************)
(* EvaluationService._evaluate_category                                    *)
(***************************************************************************)
\* category_info.applicable_to: CriteriaInfo has no such attribute, the
\* access raises AttributeError.
GetApplicableTo(category_info) ==
  IF "applicable_to" \in DOMAIN category_info
  THEN [raised |-> FALSE, value |-> category_info.applicable_to]
  ELSE [raised |-> TRUE, value |-> {}]

\* Adds one comment to the first LocationComments of the category, or to a
\* new one when there is none yet.
AddComment(location_comments, category_id, comment) ==
  IF \E i \in 1..Len(location_comments) : location_comments[i].location = category_id
  THEN LET i == CHOOSE j \in 1..Len(location_comments) :
                  /\ location_comments[j].location = category_id
                  /\ \A k \in 1..(j - 1) : location_comments[k].location # category_id
       IN  [location_comments EXCEPT ![i].comments = Append(@, comment)]
  ELSE Append(location_comments, LocationComments(category_id, <<comment>>))

RECURSIVE AddEvaluations(_, _, _, _)
AddEvaluations(location_comments, category_id, criteria_id, evaluations) ==
  IF evaluations = <<>> THEN location_comments
  ELSE AddEvaluations(
         AddComment(location_comments, category_id,
                    Comment(criteria_id, Head(evaluations).feedback, Head(evaluations).score)),
         category_id, criteria_id, Tail(evaluations))

\* The loop over category_info.criteria_ids, from the i-th criterion on:
\* calls is the log of the oracle calls made so far in the run.
RECURSIVE CriteriaLoop(_, _, _, _, _, _, _)
CriteriaLoop(category_id, criteria_ids, i, document_structure, script, calls, location_comments) ==
  IF i > Len(criteria_ids) THEN [locations |-> location_comments, calls |-> calls]
  ELSE
    LET criteria_id == criteria_ids[i]
        single == _evaluate_single_criteria(criteria_id, document_structure,
                                            ScriptOutcome(script, Len(calls) + 1))
        next_comments ==
          IF single.results # <<>>
          THEN AddEvaluations(location_comments, category_id, criteria_id, single.results)
          ELSE Append(location_comments,
                      LocationComments(category_id,
                                       <<Comment(criteria_id, "FB_NO_RESULT", RZero)>>))
    IN  CriteriaLoop(category_id, criteria_ids, i + 1, document_structure, script,
                     IF single.called
                       THEN Append(calls, [category_id |-> category_id,
                                           criteria_id |-> criteria_id,
                                           outcome |-> ScriptOutcome(script, Len(calls) + 1)])
                       ELSE calls,
                     next_comments)

\* _evaluate_category answering an exception of its first statements with
\* the default comment instead of letting it reach the caller.
_evaluate_category_swallowing(category_id, category_info, document_structure, script, calls) ==
  [raised |-> FALSE, calls |-> calls,
   locations |-> <<LocationComments(category_id,
                     <<Comment(category_info.criteria_ids[1], "FB_EVAL_ERROR", RZero)>>)>>]

_evaluate_category(category_id, category_info, document_structure, script, calls) ==
  LET attr == GetApplicableTo(category_info)
  IN
  IF attr.raised THEN [raised |-> TRUE, locations |-> <<>>, calls |-> calls]
  ELSE
    LET target_text == _get_evaluation_text(document_structure, attr.value)
        evaluation_doc_structure == [document_structure EXCEPT !.body = target_text]
        loop == CriteriaLoop(category_id, category_info.criteria_ids, 1,
                             evaluation_doc_structure, script, calls, <<>>)
    IN
    IF target_text = <<>>
      THEN [raised |-> FALSE, calls |-> calls,
            locations |-> <<LocationComments(category_id,
                              <<Comment(category_info.criteria_ids[1], "FB_TEXT_EMPTY", RZero)>>)>>]
    ELSE IF loop.locations = <<>>
      THEN [raised |-> FALSE, calls |-> loop.calls,
            locations |-> <<LocationComments(category_id,
                              <<Comment(category_info.criteria_ids[1], "FB_NO_RESULT", RZero)>>)>>]
    ELSE [raised |-> FALSE, calls |-> loop.calls, locations |-> loop.locations]

(***************************************************************************)
(* EvaluationService: the aggregators                                      *)
(***************************************************************************)
\* round(x, 0) of Python: to the nearest integer, ties to the even one.
RoundHalfEven(x) ==
  LET q == x.n \div x.d
      r == x.n % x.d
  IN  IF 2 * r < x.d THEN q
      ELSE IF 2 * r > x.d THEN q + 1
      ELSE IF q % 2 = 0 THEN q ELSE q + 1

\* round(x, 1)
Round1(x) == Rat(RoundHalfEven(RMul(x, Rat(10, 1))), 10)

\* "OK" if final_score >= 0.8 else "NG" (_calculate_category_score)
CategoryJudgment(final_score) == IF RLe(Tenths(8), final_score) THEN "OK" ELSE "NG"

\* TotalJudgment with the comparison inverted.
TotalJudgment_inverted(total_score) == IF RLe(total_score, Tenths(8)) THEN "OK" ELSE "NG"

\* "OK" if total_score >= 0.8 else "NG" (evaluate_document)
TotalJudgment(total_score) == IF RLe(Tenths(8), total_score) THEN "OK" ELSE "NG"

RECURSIVE WeightedSum(_, _)
WeightedSum(evaluations, category_info) ==
  IF evaluations = <<>> THEN [weighted_score |-> RZero, total_weight |-> RZero]
  ELSE LET evaluation == Head(evaluations)
           weight == IF evaluation.criteriaId \in DOMAIN category_info.criteria_weights
                     THEN category_info.criteria_weights[evaluation.criteriaId]
                     ELSE ROne
           rest == WeightedSum(Tail(evaluations), category_info)
       IN  [weighted_score |-> RAdd(RMul(evaluation.score, weight), rest.weighted_score),
            total_weight   |-> RAdd(weight, rest.total_weight)]

\* _calculate_category_score leaving the entries of failed criteria out of
\* both sums.
_calculate_category_score_excluding(evaluations, category_info) ==
  LET kept == SelectSeq(evaluations, LAMBDA e : e.feedback # "FB_API_ERROR")
      sums == WeightedSum(kept, category_info)
      final_score == IF RLt(RZero, sums.total_weight)
                     THEN RDiv(sums.weighted_score, sums.total_weight)
                     ELSE RZero
  IN  IF evaluations = <<>>
      THEN [categoryId |-> category_info.id, categoryName |-> category_info.display_name,
            score |-> RZero, judgment |-> "NG"]
      ELSE [categoryId |-> category_info.id, categoryName |-> category_info.display_name,
            score |-> Round1(RMul(final_score, Rat(100, 1))),
            judgment |-> CategoryJudgment(final_score)]

_calculate_category_score(evaluations, category_info) ==
  IF evaluations = <<>>
  THEN [categoryId |-> category_info.id, categoryName |-> category_info.display_name,
        score |-> RZero, judgment |-> "NG"]
  ELSE LET sums == WeightedSum(evaluations, category_info)
           final_score == IF RLt(RZero, sums.total_weight)
                          THEN RDiv(sums.weighted_score, sums.total_weight)
                          ELSE RZero
       IN  [categoryId |-> category_info.id, categoryName |-> category_info.display_name,
            score |-> Round1(RMul(final_score, Rat(100, 1))),
            judgment |-> CategoryJudgment(final_score)]

\* The category_weights dict of calculate_average_score.
category_weights ==
  [FULL_TEXT_RHETORIC |-> Tenths(10), SUMMARY_LOGIC_FLOW |-> Tenths(12),
   SUMMARY_INTERNAL_LOGIC |-> Tenths(11), SUMMARY_STORY_LOGIC |-> Tenths(12),
   STORY_INTERNAL_LOGIC |-> Tenths(11), DETAIL_RHETORIC |-> Tenths(8)]

RECURSIVE SumScores(_, _)
SumScores(evaluations, category_id) ==
  IF evaluations = <<>> THEN [total |-> RZero, count |-> 0]
  ELSE LET rest == SumScores(Tail(evaluations), category_id)
       IN  IF Head(evaluations).categoryId = category_id
           THEN [total |-> RAdd(Head(evaluations).score, rest.total), count |-> rest.count + 1]
           ELSE rest

RECURSIVE WeightedCategories(_, _)
WeightedCategories(evaluations, ids) ==
  IF ids = {} THEN [weighted |-> RZero, total_weight |-> RZero]
  ELSE LET category_id == CHOOSE c \in ids : TRUE
           sums == SumScores(evaluations, category_id)
           avg_score == RDiv(sums.total, Rat(sums.count, 1))
           weight == IF category_id \in DOMAIN category_weights
                     THEN category_weights[category_id] ELSE ROne
           rest == WeightedCategories(evaluations, ids \ {category_id})
       IN  [weighted |-> RAdd(RMul(avg_score, weight), rest.weighted),
            total_weight |-> RAdd(weight, rest.total_weight)]

RMin(x, y) == IF RLe(x, y) THEN x ELSE y
RMax(x, y) == IF RLe(x, y) THEN y ELSE x

\* calculate_average_score as the plain mean of all the scores.
calculate_average_score_flat(evaluations) ==
  IF evaluations = <<>> THEN RZero
  ELSE LET total[k \in 0..Len(evaluations)] ==
             IF k = 0 THEN RZero ELSE RAdd(evaluations[k].score, total[k - 1])
       IN  RDiv(total[Len(evaluations)], Rat(Len(evaluations), 1))

\* calculate_average_score dividing the weighted sum by the number of
\* categories instead of by the sum of their weights.
calculate_average_score_by_count(evaluations) ==
  IF evaluations = <<>> THEN RZero
  ELSE LET ids == {evaluations[i].categoryId : i \in 1..Len(evaluations)}
           sums == WeightedCategories(evaluations, ids)
       IN  RMin(RMax(RDiv(sums.weighted, Rat(Cardinality(ids), 1)), RZero), ROne)

\* calculate_average_score answering -1.0 for "no score" on an empty list.
calculate_average_score_sentinel(evaluations) ==
  IF evaluations = <<>> THEN Rat(-1, 1)
  ELSE LET sums == WeightedCategories(evaluations,
                     {evaluations[i].categoryId : i \in 1..Len(evaluations)})
       IN  IF RLt(RZero, sums.total_weight)
           THEN RMin(RMax(RDiv(sums.weighted, sums.total_weight), RZero), ROne)
           ELSE RZero

calculate_average_score(evaluations) ==
  IF evaluations = <<>> THEN RZero
  ELSE LET sums == WeightedCategories(evaluations,
                     {evaluations[i].categoryId : i \in 1..Len(evaluations)})
       IN  IF RLt(RZero, sums.total_weight)
           THEN RMin(RMax(RDiv(sums.weighted, sums.total_weight), RZero), ROne)
           ELSE RZero

(***************************************************************************)
(* State                                                                   *)
(***************************************************************************)
VARIABLES
  pc,                  \* position of the call in progress
  title, full_text, summary, paragraphs,   \* arguments of evaluate_document
  oracle_script,       \* what the oracle answers, call after call
  oracle_calls,        \* log of the oracle calls made by the run
  document_structure,  \* the dict built once per run
  cat_index,           \* position of the loop over sorted_categories
  result,              \* the result dict while it is being filled
  report,              \* <<>> until a dict is returned, then <<dict>>
  exc,                 \* the exception that escaped, "" when none
  call,                \* a direct call of one method: its name and arguments
  ret,                 \* what that call returned
  history,             \* the earlier calls of evaluate_document on the instance
  attempt,             \* the loop variable of call_openai_api
  api_log              \* the requests and the sleeps of call_openai_api, in order

vars == <<pc, title, full_text, summary, paragraphs, oracle_script, oracle_calls,
          document_structure, cat_index, result, report, exc, call, ret, history,
          attempt, api_log>>

retryVars == <<attempt, api_log>>

docVars == <<title, full_text, summary, paragraphs, oracle_script>>

(***************************************************************************)
(* Inputs                                                                  *)
(***************************************************************************)
StringsUpTo(alphabet, n) == UNION {[1..k -> alphabet] : k \in 0..n}

TitleInputs == {Str(s) : s \in StringsUpTo({" ", "T"}, MaxLen)} \cup {NoneV}

FullTextInputs == {Str(s) : s \in StringsUpTo({"\n", "b"}, MaxLen)} \cup {NoneV, DictV}

SummaryInputs == {Str(<<>>), Str(<<"s">>), NoneV, IntV}

ParagraphsInputs == {List(<<>>), List(<<Str(<<"p">>), Str(<<" ">>)>>), NoneV}

\* Reply texts are sequences over the alphabet of the reply grammar:
\*   NO_ISSUE the null-result sentinel, PROBLEM: the problem summary key,
\*   MAJOR / MINOR the severity keywords.
OracleOutcomes ==
  {OracleRaise, OracleNoChoices, OracleText(<<>>), OracleText(<<"NO_ISSUE">>),
   OracleText(<<"PROBLEM:", "MAJOR">>)}

OracleScripts == UNION {[1..k -> OracleOutcomes] : k \in 1..MaxScript}

NoCall == [op |-> "none"]
NoRet  == [op |-> "none"]

EmptyResult == [evaluations |-> <<>>, categories |-> <<>>, categoryScores |-> <<>>]

(***************************************************************************)
(* evaluate_document                                                       *)
(***************************************************************************)
\* The dict returned on a validation failure or on a caught exception.
ErrorReport(message) ==
  [evaluations |-> <<>>, categories |-> <<>>, categoryScores |-> <<>>,
   totalScore |-> RZero, totalJudgment |-> "NG", error |-> <<message>>]

\* The emptiness test remembering the validation failure of the call before.
IsBlankInput_sticky(text, ttl) ==
  \/ strip(text.s) = <<>>
  \/ strip(ttl.s) = <<>>
  \/ /\ history # <<>>
     /\ history[Len(history)].report # <<>>
     /\ history[Len(history)].report[1].error # <<>>

\* The emptiness test without the strip() calls.
IsBlankInput_unstripped(text, ttl) == text.s = <<>> \/ ttl.s = <<>>

\* not full_text.strip() or not title.strip()
IsBlankInput(text, ttl) == strip(text.s) = <<>> \/ strip(ttl.s) = <<>>

\* The logging statements before the try block: summary[:100],
\* len(paragraphs) and len(full_text) raise TypeError outside any handler.
PreambleRaises(sm, pg, text) == ~Sliceable(sm) \/ ~HasLen(pg) \/ ~HasLen(text)

Init ==
  /\ pc = "start"
  /\ title \in TitleInputs
  /\ full_text \in FullTextInputs
  /\ summary \in SummaryInputs
  /\ paragraphs \in ParagraphsInputs
  /\ oracle_script \in OracleScripts
  /\ oracle_calls = <<>>
  /\ document_structure = NoStructure
  /\ cat_index = 0
  /\ result = EmptyResult
  /\ report = <<>>
  /\ exc = ""
  /\ call = NoCall
  /\ ret = NoRet
  /\ history = <<>>
  /\ attempt = 0
  /\ api_log = <<>>

\* Entry of evaluate_document up to the loop over the categories.
Enter ==
  /\ pc = "start"
  /\ UNCHANGED <<docVars, oracle_calls, cat_index, result, call, ret, history, retryVars>>
  /\ IF PreambleRaises(summary, paragraphs, full_text)
       THEN /\ pc' = "raised"
            /\ exc' = "TypeError"
            /\ UNCHANGED <<report, document_structure>>
     ELSE IF full_text.t # "str" \/ title.t # "str"
       THEN /\ pc' = "returned"
            /\ report' = <<ErrorReport("TEXT_AND_TITLE_MUST_BE_STR")>>
            /\ UNCHANGED <<exc, document_structure>>
     ELSE IF IsBlankInput(full_text, title)
       THEN /\ pc' = "returned"
            /\ report' = <<ErrorReport("EMPTY_DOCUMENT_OR_TITLE")>>
            /\ UNCHANGED <<exc, document_structure>>
     ELSE IF paragraphs.t # "list"
       THEN /\ pc' = "returned"
            /\ report' = <<ErrorReport("PARAGRAPHS_MUST_BE_LIST")>>
            /\ UNCHANGED <<exc, document_structure>>
     ELSE /\ pc' = "categories"
          /\ document_structure' = DocumentStructure(title, summary, paragraphs, full_text)
          /\ UNCHANGED <<exc, report>>

RECURSIVE CategoryEvaluations(_, _)
\* The evaluation_data dicts of one category, location by location and
\* comment by comment.
CategoryEvaluations(category_id, locations) ==
  IF locations = <<>> THEN <<>>
  ELSE [i \in 1..Len(Head(locations).comments) |->
          [categoryId |-> category_id,
           criteriaId |-> Head(locations).comments[i].criteria_id,
           score      |-> Head(locations).comments[i].score,
           feedback   |-> Head(locations).comments[i].content,
           location   |-> Head(locations).location]]
       \o CategoryEvaluations(category_id, Tail(locations))

\* The body of the loop over sorted_categories with the category listed
\* before its evaluation is known to have succeeded.
RecordCategory_listing_first(res, category_id, category_info, evaluated) ==
  [evaluations |-> res.evaluations \o CategoryEvaluations(category_id, evaluated.locations),
   categories |-> Append(res.categories,
                         [id |-> category_id, name |-> category_info.display_name,
                          priority |-> category_info.priority]),
   categoryScores |->
     IF evaluated.raised THEN res.categoryScores
     ELSE Append(res.categoryScores,
                 _calculate_category_score(
                   CategoryEvaluations(category_id, evaluated.locations), category_info))]

\* What the body of the loop over sorted_categories does to the result
\* dict: when _evaluate_category raised, nothing (the handler logs and
\* continues); otherwise the category, its evaluations and its score are
\* appended.
RecordCategory(res, category_id, category_info, evaluated) ==
  LET category_evaluations == CategoryEvaluations(category_id, evaluated.locations)
  IN  IF evaluated.raised THEN res
      ELSE [evaluations |-> res.evaluations \o category_evaluations,
            categories |-> Append(res.categories,
                                  [id |-> category_id,
                                   name |-> category_info.display_name,
                                   priority |-> category_info.priority]),
            categoryScores |-> Append(res.categoryScores,
                                      _calculate_category_score(category_evaluations,
                                                                category_info))]

\* One iteration of the loop over sorted_categories; an exception of
\* _evaluate_category is logged and the loop continues.
CategoryIteration ==
  /\ pc = "categories"
  /\ cat_index < Len(sorted_categories)
  /\ LET category_id == sorted_categories[cat_index + 1]
         category_info == CRITERIA_MAPPING[category_id]
         evaluated == _evaluate_category(category_id, category_info, document_structure,
                                         oracle_script, oracle_calls)
     IN  /\ oracle_calls' = evaluated.calls
         /\ result' = RecordCategory(result, category_id, category_info, evaluated)
  /\ cat_index' = cat_index + 1
  /\ UNCHANGED <<pc, docVars, document_structure, report, exc, call, ret, history,
                 retryVars>>

\* The return after the loop short-circuited to the failure report when
\* no evaluation was recorded.
NormalReport_error_on_empty(res) ==
  IF res.evaluations = <<>> THEN ErrorReport("NO_EVALUATION")
  ELSE LET total_score == calculate_average_score(res.evaluations)
       IN  [evaluations |-> res.evaluations,
            categories |-> res.categories,
            categoryScores |-> res.categoryScores,
            totalScore |-> total_score,
            totalJudgment |-> TotalJudgment(total_score),
            error |-> <<>>]

\* The dict returned after the loop: the result dict with its total score
\* and total judgment, without an error key.
NormalReport(res) ==
  LET total_score == calculate_average_score(res.evaluations)
  IN  [evaluations |-> res.evaluations,
       categories |-> res.categories,
       categoryScores |-> res.categoryScores,
       totalScore |-> total_score,
       totalJudgment |-> TotalJudgment(total_score),
       error |-> <<>>]

\* After the loop: the total score, the total judgment and the return.
Finish ==
  /\ pc = "categories"
  /\ cat_index = Len(sorted_categories)
  /\ report' = <<NormalReport(result)>>
  /\ pc' = "returned"
  /\ UNCHANGED <<docVars, oracle_calls, document_structure, cat_index, result, exc, call, ret,
                 history, retryVars>>

Next == Enter \/ CategoryIteration \/ Finish

Spec == Init /\ [][Next]_vars

\* evaluate_document is one coroutine awaited to its end: as long as a step
\* of it is possible (the oracle call it waits for ends), a step is taken.
FairSpec == Spec /\ WF_vars(Next)

(***************************************************************************)
(* Successive calls of evaluate_document on one EvaluationService          *)
(***************************************************************************)
\* The documents and oracles of successive calls: a valid document, one
\* with a blank title, one whose full_text is None, each with an oracle
\* that raises or one that answers with the sentinel.
RunTitles    == {Str(<<"T">>), Str(<<" ">>)}
RunFullTexts == {Str(<<"b">>), NoneV}
RunScripts   == {<<OracleRaise>>, <<OracleText(<<"NO_ISSUE">>)>>}

\* What one call was given and how it ended.
Invocation ==
  [title |-> title, full_text |-> full_text, summary |-> summary,
   paragraphs |-> paragraphs, oracle_script |-> oracle_script,
   report |-> report, exc |-> exc]

InitRuns ==
  /\ pc = "start"
  /\ title \in RunTitles
  /\ full_text \in RunFullTexts
  /\ summary = Str(<<"s">>)
  /\ paragraphs = List(<<>>)
  /\ oracle_script \in RunScripts
  /\ oracle_calls = <<>>
  /\ document_structure = NoStructure
  /\ cat_index = 0
  /\ result = EmptyResult
  /\ report = <<>>
  /\ exc = ""
  /\ call = NoCall
  /\ ret = NoRet
  /\ history = <<>>
  /\ attempt = 0
  /\ api_log = <<>>

\* The next call on the same instance: __init__ is not run again, the
\* instance keeps text_analyzer, client, settings and logger, none of which
\* evaluate_document assigns; result, document_structure and the loop
\* position are locals of the new call.
NextInvocation ==
  /\ pc \in {"returned", "raised"}
  /\ call = NoCall
  /\ Len(history) < MaxRuns - 1
  /\ history' = Append(history, Invocation)
  /\ title' \in RunTitles
  /\ full_text' \in RunFullTexts
  /\ oracle_script' \in RunScripts
  /\ pc' = "start"
  /\ oracle_calls' = <<>>
  /\ document_structure' = NoStructure
  /\ cat_index' = 0
  /\ result' = EmptyResult
  /\ report' = <<>>
  /\ exc' = ""
  /\ UNCHANGED <<summary, paragraphs, call, ret, retryVars>>

NextRuns == Enter \/ CategoryIteration \/ Finish \/ NextInvocation

SpecRuns == InitRuns /\ [][NextRuns]_vars

(***************************************************************************)
(* Direct calls of the parser and of the aggregators                       *)
(***************************************************************************)
\* The alphabet of reply texts: the keys and keywords of the reply grammar
\* (NO_ISSUE the null-result sentinel, TARGET: the target text key,
\* PROBLEM: the problem summary key, MAJOR and MINOR the severity keywords,
\* POINTS: and SUGGEST: the two bullet blocks), the dash of the separator
\* "---" and of a bullet, the newline and one ordinary character.
ReplyAlphabet ==
  {"NO_ISSUE", "TARGET:", "PROBLEM:", "MAJOR", "MINOR", "POINTS:", "SUGGEST:",
   "-", "\n", "x"}

ReplyTexts == StringsUpTo(ReplyAlphabet, MaxText)

\* The two bullet blocks of a segment, each with one bullet line "-x".
PointsBlock  == <<"POINTS:", "\n", "-", "x">>
SuggestBlock == <<"SUGGEST:", "\n", "-", "x", "x">>

\* What a segment can carry before its bullet blocks: nothing, a target
\* line, a problem line, or both.
SegmentHeads ==
  {<<>>, <<"TARGET:", "x", "\n">>, <<"PROBLEM:", "MAJOR", "\n">>,
   <<"TARGET:", "x", "\n", "PROBLEM:", "MINOR", "\n">>}

\* Pairs of one-segment replies that differ only in the order of the two
\* bullet blocks: <<points first, suggestions first>>.
FieldOrderPairs ==
  {<<head \o PointsBlock \o <<"\n">> \o SuggestBlock,
     head \o SuggestBlock \o <<"\n">> \o PointsBlock>> : head \in SegmentHeads}

FieldOrderTexts == {p[1] : p \in FieldOrderPairs} \cup {p[2] : p \in FieldOrderPairs}

ParseCalls ==
  {[op |-> "_parse_evaluation_text", evaluation_text |-> t,
    criteria_id |-> "MinimalRhetoric"] : t \in ReplyTexts \cup FieldOrderTexts}

\* Scores an evaluation entry can carry: 0.0, 0.4, 0.5, 0.7, 0.9 and 1.0.
ScoreValues == {Tenths(0), Tenths(4), Tenths(5), Tenths(7), Tenths(9), Tenths(10)}

CriteriaOf(category_id) ==
  {CRITERIA_MAPPING[category_id].criteria_ids[i] :
     i \in 1..Len(CRITERIA_MAPPING[category_id].criteria_ids)}

\* The evaluation_data dicts evaluate_document can record for a category:
\* a scored finding, or the entry of a criterion whose oracle call failed
\* (score 0.0, feedback FB_API_ERROR).
EvaluationEntries(category_id) ==
  {[categoryId |-> category_id, criteriaId |-> c, score |-> sc,
    feedback |-> "FB_FINDING", location |-> category_id] :
      c \in CriteriaOf(category_id), sc \in ScoreValues}
  \cup
  {[categoryId |-> category_id, criteriaId |-> c, score |-> RZero,
    feedback |-> "FB_API_ERROR", location |-> category_id] :
      c \in CriteriaOf(category_id)}

CategoryScoreCalls ==
  UNION {{[op |-> "_calculate_category_score", category_id |-> category_id,
           evaluations |-> evs] :
            evs \in UNION {[1..k -> EvaluationEntries(category_id)] : k \in 0..MaxEvals}} :
         category_id \in DOMAIN CRITERIA_MAPPING}

\* Entries for calculate_average_score: any category id (one of them not
\* in category_weights) and any score.
AverageEntries ==
  {[categoryId |-> category_id, criteriaId |-> "test", score |-> sc,
    feedback |-> "FB_FINDING", location |-> category_id] :
      category_id \in (DOMAIN CRITERIA_MAPPING) \cup {"unknown"}, sc \in ScoreValues}

AverageScoreCalls ==
  {[op |-> "calculate_average_score", category_id |-> "none", evaluations |-> evs] :
     evs \in UNION {[1..k -> AverageEntries] : k \in 0..MaxEvals}}

InitCall(calls) ==
  /\ pc = "call"
  /\ call \in calls
  /\ ret = NoRet
  /\ title = NoneV /\ full_text = NoneV /\ summary = NoneV /\ paragraphs = NoneV
  /\ oracle_script = <<OracleRaise>>
  /\ oracle_calls = <<>>
  /\ document_structure = NoStructure
  /\ cat_index = 0
  /\ result = EmptyResult
  /\ report = <<>>
  /\ exc = ""
  /\ history = <<>>
  /\ attempt = 0
  /\ api_log = <<>>

pipelineVars == <<title, full_text, summary, paragraphs, oracle_script, oracle_calls,
                  document_structure, cat_index, result, report, exc, history>>

ParseCall ==
  /\ pc = "call"
  /\ call.op = "_parse_evaluation_text"
  /\ ret' = _parse_evaluation_text(call.evaluation_text, call.criteria_id, 1,
                                   {"FULL_DOCUMENT"}, NoStructure)
  /\ pc' = "returned"
  /\ UNCHANGED <<call, pipelineVars, retryVars>>

CategoryScoreCall ==
  /\ pc = "call"
  /\ call.op = "_calculate_category_score"
  /\ ret' = _calculate_category_score(call.evaluations, CRITERIA_MAPPING[call.category_id])
  /\ pc' = "returned"
  /\ UNCHANGED <<call, pipelineVars, retryVars>>

AverageScoreCall ==
  /\ pc = "call"
  /\ call.op = "calculate_average_score"
  /\ ret' = [value |-> calculate_average_score(call.evaluations)]
  /\ pc' = "returned"
  /\ UNCHANGED <<call, pipelineVars, retryVars>>

\* The scope tags _get_evaluation_text tests for, one tag of the criteria
\* list that it does not test for, and no tag at all.
KnownScopes == {"FULL_DOCUMENT", "SUMMARY_ONLY", "SUMMARY_AND_STORY", "STORY_AND_BODY"}

ScopeLists == {{tag} : tag \in KnownScopes} \cup {{"FULL_SUMMARY"}, {}}

SectionTexts == StringsUpTo({" ", "s"}, MaxSection)

ScopeTextCalls ==
  {[op |-> "_get_evaluation_text", applicable_to |-> a,
    document_structure |->
      [NoStructure EXCEPT !.summary = sm, !.story = st, !.body = bd]] :
     a \in ScopeLists, sm \in SectionTexts, st \in SectionTexts, bd \in SectionTexts}

ScopeTextCall ==
  /\ pc = "call"
  /\ call.op = "_get_evaluation_text"
  /\ ret' = [value |-> _get_evaluation_text(call.document_structure, call.applicable_to)]
  /\ pc' = "returned"
  /\ UNCHANGED <<call, pipelineVars, retryVars>>

InitText == InitCall(ScopeTextCalls)
SpecText == InitText /\ [][ScopeTextCall]_vars

InitParse == InitCall(ParseCalls)
SpecParse == InitParse /\ [][ParseCall]_vars

InitScore == InitCall(CategoryScoreCalls \cup AverageScoreCalls)
NextScore == CategoryScoreCall \/ AverageScoreCall
SpecScore == InitScore /\ [][NextScore]_vars

(***************************************************************************)
(* openai_service.call_openai_api                                          *)
(***************************************************************************)
base_delay == 2
max_delay == 60

\* min(base_delay * (2 ** attempt), max_delay)
Delay(k) == IF base_delay * (2 ^ k) <= max_delay THEN base_delay * (2 ^ k) ELSE max_delay

\* What one chat.completions.create does: it raises, it answers without
\* choices (or with no response), or it answers with a content, which is
\* None, empty, blank or a text.
ApiOutcomes ==
  {[kind |-> "raise", content |-> NoneV],
   [kind |-> "no_choices", content |-> NoneV],
   [kind |-> "content", content |-> NoneV],
   [kind |-> "content", content |-> Str(<<>>)],
   [kind |-> "content", content |-> Str(<<" ">>)],
   [kind |-> "content", content |-> Str(<<"a">>)],
   [kind |-> "content", content |-> Str(<<"a", " ">>)]}

\* not content or not content.strip()
ContentMissing(content) == content.t # "str" \/ strip(content.s) = <<>>

\* The attempt raised into the inner handler.
AttemptFails(outcome) ==
  outcome.kind \in {"raise", "no_choices"} \/ ContentMissing(outcome.content)

\* The calls: the messages (empty or not), the configured
\* settings.OPENAI_MAX_RETRIES, and whether AzureOpenAI(...) raises.
ApiCalls ==
  [op : {"call_openai_api"}, messages : {<<>>, <<"m">>},
   OPENAI_MAX_RETRIES : 0..MaxRetries, client_raises : BOOLEAN]

InitApi ==
  /\ pc = "call"
  /\ call \in ApiCalls
  /\ ret = NoRet
  /\ title = NoneV /\ full_text = NoneV /\ summary = NoneV /\ paragraphs = NoneV
  /\ oracle_script = <<OracleRaise>>
  /\ oracle_calls = <<>>
  /\ document_structure = NoStructure
  /\ cat_index = 0
  /\ result = EmptyResult
  /\ report = <<>>
  /\ exc = ""
  /\ history = <<>>
  /\ attempt = 0
  /\ api_log = <<>>

apiFrame == <<call, title, full_text, summary, paragraphs, oracle_script, oracle_calls,
              document_structure, cat_index, result, report, history>>

\* From the entry to the for statement: empty messages raise
\* EvaluationError, an exception of the client's constructor is turned into
\* EvaluationError by the outer handler.
ApiEnter ==
  /\ pc = "call"
  /\ call.op = "call_openai_api"
  /\ IF call.messages = <<>> \/ call.client_raises
       THEN pc' = "raised" /\ exc' = "EvaluationError"
       ELSE pc' = "loop" /\ exc' = exc
  /\ UNCHANGED <<ret, retryVars, apiFrame>>

\* One iteration of for attempt in range(max_retries): the request, then
\* the return of the content, or the handler, which sleeps and goes on or,
\* on the last iteration, raises EvaluationError.
ApiAttempt ==
  /\ pc = "loop"
  /\ attempt < call.OPENAI_MAX_RETRIES
  /\ \E outcome \in ApiOutcomes :
       LET requested == Append(api_log, [kind |-> "request", n |-> attempt])
       IN  IF ~AttemptFails(outcome)
             THEN /\ ret' = outcome.content
                  /\ pc' = "returned"
                  /\ api_log' = requested
                  /\ UNCHANGED <<attempt, exc>>
           ELSE IF attempt < call.OPENAI_MAX_RETRIES - 1
             THEN /\ api_log' = Append(requested, [kind |-> "sleep", n |-> Delay(attempt)])
                  /\ attempt' = attempt + 1
                  /\ UNCHANGED <<pc, ret, exc>>
           ELSE /\ exc' = "EvaluationError"
                /\ pc' = "raised"
                /\ api_log' = requested
                /\ UNCHANGED <<attempt, ret>>
  /\ UNCHANGED apiFrame

\* The for statement has no iteration left and no statement follows it:
\* the function ends without a return statement, its value is None.
ApiLoopEnd ==
  /\ pc = "loop"
  /\ attempt >= call.OPENAI_MAX_RETRIES
  /\ ret' = NoneV
  /\ pc' = "returned"
  /\ UNCHANGED <<exc, retryVars, apiFrame>>

NextApi == ApiEnter \/ ApiAttempt \/ ApiLoopEnd

SpecApi == InitApi /\ [][NextApi]_vars

(***************************************************************************)
(* Properties                                                              *)
(***************************************************************************)
WellTyped ==
  title.t = "str" /\ full_text.t = "str" /\ summary.t = "str" /\ paragraphs.t = "list"

\* A document of well-typed parts whose title and full_text are non-empty
\* after trimming.
ValidDocument == WellTyped /\ strip(title.s) # <<>> /\ strip(full_text.s) # <<>>

\* The call of evaluate_document is over: it returned or it raised.
Completed == pc \in {"returned", "raised"}

Returned == pc = "returned" /\ report # <<>>

InUnitInterval(x) == RLe(RZero, x) /\ RLe(x, ROne)

\* C1: for every document whose title and full_text are non-empty after
\* trimming, whatever the oracle answers, evaluate_document returns a report
\* whose totalScore lies in [0,1].
C1_TotalScoreInUnitInterval ==
  (ValidDocument /\ Completed) => (Returned /\ InUnitInterval(report[1].totalScore))

C1_Witness ==
  ValidDocument /\ Returned /\ report[1].error = <<>> /\ cat_index = Len(sorted_categories)

\* C2: in every report returned by evaluate_document, error reports
\* included, totalJudgment is OK exactly when totalScore >= 0.8, NG otherwise.
C2_TotalJudgmentMatchesThreshold ==
  Returned =>
    /\ report[1].totalJudgment \in {"OK", "NG"}
    /\ report[1].totalJudgment = "OK" <=> RLe(Tenths(8), report[1].totalScore)

C2_Witness ==
  Returned /\ report[1].error = <<>> /\ report[1].totalJudgment = "NG"

\* C3: when title or full_text is empty or whitespace-only, evaluate_document
\* returns a report with error set, totalScore 0.0, totalJudgment NG and
\* empty evaluations, categories and categoryScores, without any oracle call.
C3_BlankInputGivesErrorReport ==
  (WellTyped /\ (strip(title.s) = <<>> \/ strip(full_text.s) = <<>>) /\ Completed) =>
    /\ Returned
    /\ report[1].error # <<>>
    /\ report[1].totalScore = RZero
    /\ report[1].totalJudgment = "NG"
    /\ report[1].evaluations = <<>>
    /\ report[1].categories = <<>>
    /\ report[1].categoryScores = <<>>
    /\ oracle_calls = <<>>

C3_Witness ==
  /\ WellTyped /\ title.s = <<" ">> /\ strip(full_text.s) # <<>>
  /\ Returned /\ report[1].error = <<"EMPTY_DOCUMENT_OR_TITLE">>

\* C4: evaluate_document never raises on an input of invalid type: when
\* title, full_text, summary or paragraphs is not of the expected type it
\* returns a report with error set and totalScore 0.0.
C4_InvalidTypeGivesErrorReport ==
  (~WellTyped /\ Completed) =>
    (Returned /\ report[1].error # <<>> /\ report[1].totalScore = RZero)

AllRepliesNonEmpty ==
  \A i \in 1..Len(oracle_script) :
    oracle_script[i].kind = "text" /\ oracle_script[i].text # <<>>

\* C5: for a valid document, if every oracle call of the run returns a
\* non-empty reply, the report has a non-empty evaluations list and
\* totalScore > 0.
C5_NonEmptyRepliesGiveScore ==
  (ValidDocument /\ AllRepliesNonEmpty /\ Completed) =>
    (Returned /\ report[1].evaluations # <<>> /\ RLt(RZero, report[1].totalScore))

Contains(text, symbol) == \E i \in 1..Len(text) : text[i] = symbol

ParseReturned == pc = "returned" /\ call.op = "_parse_evaluation_text"

\* C6: a reply that contains the null-result sentinel anywhere is parsed by
\* _parse_evaluation_text into exactly one finding without issue (score
\* 1.0), whatever else the reply contains.
C6_SentinelGivesOneCleanFinding ==
  (ParseReturned /\ Contains(call.evaluation_text, "NO_ISSUE")) =>
    /\ ~ret.isNone
    /\ Len(ret.items) = 1
    /\ ret.items[1].score = ROne

\* C7: for every reply text _parse_evaluation_text returns a sequence of at
\* least one finding.
C7_ParseReturnsFindings ==
  ParseReturned => (~ret.isNone /\ Len(ret.items) >= 1)

AllSentinelReplies ==
  \A i \in 1..Len(oracle_script) : oracle_script[i] = OracleText(<<"NO_ISSUE">>)

\* C9: when every criterion of every category is answered by exactly the
\* null-result sentinel, every category is reported with score 1.0 and
\* judgment OK, and the total score is 1.0 with judgment OK.
C9_AllSentinelGivesFullScore ==
  (ValidDocument /\ AllSentinelReplies /\ Completed) =>
    /\ Returned
    /\ Len(report[1].categoryScores) = Len(sorted_categories)
    /\ \A i \in 1..Len(report[1].categoryScores) :
         /\ report[1].categoryScores[i].score = ROne
         /\ report[1].categoryScores[i].judgment = "OK"
    /\ report[1].totalScore = ROne
    /\ report[1].totalJudgment = "OK"

\* The line that follows the first occurrence of a key: the symbols up to
\* the next newline.
RECURSIVE UpToNewline(_)
UpToNewline(text) ==
  IF text = <<>> \/ Head(text) = "\n" THEN <<>> ELSE <<Head(text)>> \o UpToNewline(Tail(text))

LineAfter(text, key) ==
  LET i == CHOOSE j \in 1..Len(text) :
             text[j] = key /\ \A k \in 1..(j - 1) : text[k] # key
  IN  UpToNewline(SubSeq(text, i + 1, Len(text)))

\* The scores the deduction table allows for a one-segment reply with a
\* problem line: 0.3 when the line contains the MAJOR keyword, 0.8 or 0.9
\* when it contains the MINOR keyword, 0.5 to 0.6 otherwise.
TableScoreOk(problem_line, score) ==
  IF Contains(problem_line, "MAJOR") THEN score = Tenths(3)
  ELSE IF Contains(problem_line, "MINOR") THEN score \in {Tenths(8), Tenths(9)}
  ELSE RLe(Tenths(5), score) /\ RLe(score, Tenths(6))

\* C10: every finding parsed from a reply segment gets the score fixed by
\* its severity: MAJOR (the problem line contains the keyword) scores 0.3,
\* MODERATE 0.5 to 0.6, MINOR 0.8 or 0.9, and a null-result finding 1.0.
C10_SeverityFixesScore ==
  /\ (ParseReturned /\ Contains(call.evaluation_text, "NO_ISSUE")) =>
       (~ret.isNone /\ ret.items # <<>>
        /\ \A i \in 1..Len(ret.items) : ret.items[i].score = ROne)
  /\ (/\ ParseReturned
      /\ ~Contains(call.evaluation_text, "NO_ISSUE")
      /\ ~Contains(call.evaluation_text, "-")
      /\ Contains(call.evaluation_text, "PROBLEM:")) =>
       (~ret.isNone /\ ret.items # <<>>
        /\ \A i \in 1..Len(ret.items) :
             TableScoreOk(LineAfter(call.evaluation_text, "PROBLEM:"), ret.items[i].score))

\* The reply with the two bullet blocks of call.evaluation_text swapped.
SwappedText ==
  LET p == CHOOSE q \in FieldOrderPairs : call.evaluation_text \in {q[1], q[2]}
  IN  IF call.evaluation_text = p[1] THEN p[2] ELSE p[1]

\* C11: parsing a segment does not depend on the order of its fields: a
\* segment with the SUGGEST: block before the POINTS: block yields the same
\* finding (score and feedback items) as the segment with the two blocks
\* swapped.
C11_FieldOrderInsensitive ==
  (ParseReturned /\ call.evaluation_text \in FieldOrderTexts) =>
    /\ ~ret.isNone
    /\ Len(ret.items) = 1
    /\ ret = _parse_evaluation_text(SwappedText, call.criteria_id, 1,
                                    {"FULL_DOCUMENT"}, NoStructure)

\* A reply without the sentinel all of whose segments have neither a target
\* line nor a bullet line (the alphabet has no other dash than the one of a
\* bullet or of the separator).
OnlyDroppedSegments(text) ==
  /\ ~Contains(text, "NO_ISSUE")
  /\ ~Contains(text, "TARGET:")
  /\ ~Contains(text, "-")

\* C12: a segment with neither a target line nor a bullet line produces no
\* finding; when dropping such segments leaves no finding, the parser
\* returns the single fallback finding with score 0.5.
C12_DroppedSegmentsGiveFallback ==
  (ParseReturned /\ OnlyDroppedSegments(call.evaluation_text)) =>
    /\ ~ret.isNone
    /\ Len(ret.items) = 1
    /\ ret.items[1].score = Tenths(5)

AverageScoreReturned == pc = "returned" /\ call.op = "calculate_average_score"

AllScoresEqual(evaluations) ==
  \A i \in 1..Len(evaluations) : evaluations[i].score = evaluations[1].score

\* C13: calculate_average_score returns s whenever every evaluation of its
\* input has the same score s in [0,1], whatever the categories of the
\* evaluations and whatever the category weights.
C13_EqualScoresAverageToThatScore ==
  (AverageScoreReturned /\ call.evaluations # <<>> /\ AllScoresEqual(call.evaluations)) =>
    ret.value = call.evaluations[1].score

C13_Witness ==
  /\ AverageScoreReturned
  /\ Len(call.evaluations) = 2
  /\ call.evaluations[1].categoryId = "FULL_TEXT_RHETORIC"
  /\ call.evaluations[2].categoryId = "SUMMARY_LOGIC_FLOW"
  /\ call.evaluations[1].score = Tenths(7)
  /\ call.evaluations[2].score = Tenths(7)
  /\ ret.value = Tenths(7)

\* The feedback texts that mark the entry of a criterion whose evaluation
\* failed.
FailureFeedbacks ==
  {"FB_API_ERROR", "FB_API_EMPTY", "FB_RESULT_EMPTY", "FB_EVAL_ERROR", "FB_NO_RESULT",
   "FB_TEXT_EMPTY", "FB_NO_CRITERIA", "FB_NO_DESCRIPTION"}

MarkedFailed(evaluation) == evaluation.feedback \in FailureFeedbacks

\* The oracle fails on the first criterion it is asked about and answers
\* every later one with the null-result sentinel.
FirstFailsRestSucceed == oracle_script = <<OracleRaise, OracleText(<<"NO_ISSUE">>)>>

\* C14: when, in one run over a valid document, the evaluation of one
\* criterion fails and the evaluation of another succeeds, the evaluations
\* of the report hold an entry for each: the failed one marked with an
\* error, the successful one not.
C14_PartialFailureKeepsBothEntries ==
  (ValidDocument /\ FirstFailsRestSucceed /\ Completed) =>
    /\ Returned
    /\ \E i \in 1..Len(report[1].evaluations) : MarkedFailed(report[1].evaluations[i])
    /\ \E i \in 1..Len(report[1].evaluations) : ~MarkedFailed(report[1].evaluations[i])

\* The calls made so far on the instance that are over.
RunsSoFar == history \o (IF Completed THEN <<Invocation>> ELSE <<>>)

SameInputs(a, b) ==
  /\ a.title = b.title /\ a.full_text = b.full_text /\ a.summary = b.summary
  /\ a.paragraphs = b.paragraphs /\ a.oracle_script = b.oracle_script

RECURSIVE CatalogOrder(_)
CatalogOrder(category_ids) ==
  IF category_ids = <<>> THEN <<>>
  ELSE [i \in 1..Len(CRITERIA_MAPPING[Head(category_ids)].criteria_ids) |->
          <<Head(category_ids), CRITERIA_MAPPING[Head(category_ids)].criteria_ids[i]>>]
       \o CatalogOrder(Tail(category_ids))

HasEntry(category_id, criteria_id) ==
  \E i \in 1..Len(report[1].evaluations) :
    /\ report[1].evaluations[i].categoryId = category_id
    /\ report[1].evaluations[i].criteriaId = criteria_id

\* C20: when the oracle call for a criterion raises, the run records one
\* degraded evaluation for it, with score 0.0 and an explanatory feedback,
\* and every later criterion of the category and every later category is
\* still evaluated.
C20_OracleFailureIsDegradedAndRunContinues ==
  (ValidDocument /\ oracle_script[1] = OracleRaise /\ Completed) =>
    /\ Returned
    /\ \E i \in 1..Len(report[1].evaluations) :
         /\ report[1].evaluations[i].categoryId = sorted_categories[1]
         /\ report[1].evaluations[i].criteriaId =
              CRITERIA_MAPPING[sorted_categories[1]].criteria_ids[1]
         /\ report[1].evaluations[i].score = RZero
         /\ MarkedFailed(report[1].evaluations[i])
    /\ \A k \in 1..Len(CatalogOrder(sorted_categories)) :
         HasEntry(CatalogOrder(sorted_categories)[k][1], CatalogOrder(sorted_categories)[k][2])

Errored(evaluation) == evaluation.feedback = "FB_API_ERROR"

RECURSIVE ScoreSum(_)
ScoreSum(evaluations) ==
  IF evaluations = <<>> THEN RZero
  ELSE RAdd(Head(evaluations).score, ScoreSum(Tail(evaluations)))

CategoryScoreReturned == pc = "returned" /\ call.op = "_calculate_category_score"

\* C16: in every category result, judgment is OK exactly when the score of
\* the category is >= 0.8 and NG otherwise.
C16_CategoryJudgmentMatchesThreshold ==
  CategoryScoreReturned =>
    /\ ret.judgment \in {"OK", "NG"}
    /\ ret.judgment = "OK" <=> RLe(Tenths(8), ret.score)

\* The lowest score among the entries of one criterion.
MinScore(evaluations, criteria_id) ==
  LET scores == {evaluations[i].score :
                   i \in {k \in 1..Len(evaluations) : evaluations[k].criteriaId = criteria_id}}
  IN  CHOOSE m \in scores : \A o \in scores : RLe(m, o)

RECURSIVE SumOfMins(_, _)
SumOfMins(evaluations, criteria) ==
  IF criteria = {} THEN RZero
  ELSE LET c == CHOOSE x \in criteria : TRUE
       IN  RAdd(MinScore(evaluations, c), SumOfMins(evaluations, criteria \ {c}))

\* The mean, over the criteria that have entries, of the lowest score of
\* each, in percent rounded to one decimal (the weights of the criteria of
\* a catalog category are equal).
MeanOfMinsPercent(evaluations) ==
  LET criteria == {evaluations[i].criteriaId : i \in 1..Len(evaluations)}
  IN  Round1(RMul(RDiv(SumOfMins(evaluations, criteria), Rat(Cardinality(criteria), 1)),
                  Rat(100, 1)))

\* C17: when one criterion yields several findings, the criterion enters the
\* weighted average of its category with a single score, the minimum of the
\* scores of its findings (the score is read on the percent scale the code
\* reports).
C17_CriterionCountsWithItsMinimum ==
  (/\ CategoryScoreReturned
   /\ call.evaluations # <<>>
   /\ \A i \in 1..Len(call.evaluations) : ~Errored(call.evaluations[i])) =>
    ret.score = MeanOfMinsPercent(call.evaluations)

\* The mean score of the entries of one category and whether it has any.
CategoryMean(evaluations, category_id) ==
  LET own == SelectSeq(evaluations, LAMBDA e : e.categoryId = category_id)
  IN  [present |-> own # <<>>,
       mean |-> IF own = <<>> THEN RZero ELSE RDiv(ScoreSum(own), Rat(Len(own), 1))]

WeightOf(category_id) ==
  IF category_id \in DOMAIN category_weights THEN category_weights[category_id] ELSE ROne

\* Sum of f over the categories of ids that have entries.
RECURSIVE SumPresent(_, _, _)
SumPresent(evaluations, ids, useMean) ==
  IF ids = <<>> THEN RZero
  ELSE LET m == CategoryMean(evaluations, Head(ids))
           term == IF ~m.present THEN RZero
                   ELSE IF useMean THEN RMul(WeightOf(Head(ids)), m.mean)
                   ELSE WeightOf(Head(ids))
       IN  RAdd(term, SumPresent(evaluations, Tail(ids), useMean))

AllCategoryIds == sorted_categories \o <<"unknown">>

\* C18 as stated: totalScore is the flat arithmetic mean of the scores of
\* all the evaluations, across the categories, without category weights.
C18_TotalIsFlatMean ==
  (AverageScoreReturned /\ call.evaluations # <<>>) =>
    ret.value = RDiv(ScoreSum(call.evaluations), Rat(Len(call.evaluations), 1))

\* C18 amended: totalScore is the mean of the categories' mean scores
\* weighted by category importance: the total times the sum of the weights
\* of the categories that have entries equals the sum of weight times mean
\* score over those categories.
C18_TotalIsCategoryWeightedMean ==
  (AverageScoreReturned /\ call.evaluations # <<>>) =>
    RMul(ret.value, SumPresent(call.evaluations, AllCategoryIds, FALSE))
      = SumPresent(call.evaluations, AllCategoryIds, TRUE)

C18_Witness ==
  /\ AverageScoreReturned
  /\ Len(call.evaluations) = 2
  /\ call.evaluations[1].categoryId = "FULL_TEXT_RHETORIC"
  /\ call.evaluations[1].score = ROne
  /\ call.evaluations[2].categoryId = "SUMMARY_LOGIC_FLOW"
  /\ call.evaluations[2].score = RZero
  /\ ret.value = Rat(5, 11)

\* The plain mean of the scores, in percent, rounded to one decimal.
MeanPercent(evaluations) ==
  Round1(RMul(RDiv(ScoreSum(evaluations), Rat(Len(evaluations), 1)), Rat(100, 1)))

Succeeded(evaluations) == SelectSeq(evaluations, LAMBDA e : ~Errored(e))

CategoryRaises(category_id) == GetApplicableTo(CRITERIA_MAPPING[category_id]).raised

CategoryIds(categories) == {categories[i].id : i \in 1..Len(categories)}
CategoryScoreIds(scores) == {scores[i].categoryId : i \in 1..Len(scores)}

\* C21: when processing a category raises at the category loop, the
\* category appears in neither categories nor categoryScores, and all the
\* remaining categories are still processed.
C21_RaisingCategoryIsOmittedAndLoopContinues ==
  /\ \A i \in 1..cat_index :
       CategoryRaises(sorted_categories[i]) =>
         /\ sorted_categories[i] \notin CategoryIds(result.categories)
         /\ sorted_categories[i] \notin CategoryScoreIds(result.categoryScores)
  /\ (Returned /\ report[1].error = <<>>) =>
       /\ cat_index = Len(sorted_categories)
       /\ \A i \in 1..cat_index :
            CategoryRaises(sorted_categories[i]) =>
              /\ sorted_categories[i] \notin CategoryIds(report[1].categories)
              /\ sorted_categories[i] \notin CategoryScoreIds(report[1].categoryScores)

C21_Witness ==
  /\ Returned /\ report[1].error = <<>>
  /\ CategoryRaises(sorted_categories[1])
  /\ cat_index = Len(sorted_categories)
  /\ sorted_categories[1] \notin CategoryIds(report[1].categories)
  /\ oracle_script = <<OracleText(<<"NO_ISSUE">>)>>

AllCallsFail == \A i \in 1..Len(oracle_script) : oracle_script[i] = OracleRaise

\* C22: if the oracle call of every single criterion errors during a run on
\* a valid document, evaluate_document returns the whole-run failure report:
\* empty evaluations and categories, totalScore 0.0, totalJudgment NG and a
\* populated error field.
C22_AllCallsFailingGivesErrorReport ==
  (ValidDocument /\ AllCallsFail /\ Completed) =>
    /\ Returned
    /\ report[1].evaluations = <<>>
    /\ report[1].categories = <<>>
    /\ report[1].totalScore = RZero
    /\ report[1].totalJudgment = "NG"
    /\ report[1].error # <<>>

\* C23: only an input validation failure is fatal: for a document that
\* passes validation, oracle errors, parse ambiguities and category-level
\* exceptions never abort the run nor escape evaluate_document as an
\* exception; the report is produced by the normal path from the categories
\* that completed.
C23_OnlyValidationIsFatal ==
  (ValidDocument /\ Completed) =>
    /\ Returned
    /\ exc = ""
    /\ report[1].error = <<>>
    /\ cat_index = Len(sorted_categories)
    /\ report[1].evaluations = result.evaluations
    /\ report[1].categories = result.categories
    /\ report[1].categoryScores = result.categoryScores

C23_Witness ==
  /\ ValidDocument /\ AllCallsFail
  /\ Returned /\ exc = "" /\ report[1].error = <<>>
  /\ \A i \in 1..Len(sorted_categories) : CategoryRaises(sorted_categories[i])

ScopeTextReturned == pc = "returned" /\ call.op = "_get_evaluation_text"

\* The section texts a scope covers.
ApplicableSections(applicable_to, structure) ==
  IF "FULL_DOCUMENT" \in applicable_to
    THEN {structure.summary, structure.story, structure.body}
  ELSE IF "SUMMARY_ONLY" \in applicable_to THEN {structure.summary}
  ELSE IF "SUMMARY_AND_STORY" \in applicable_to THEN {structure.summary, structure.story}
  ELSE IF "STORY_AND_BODY" \in applicable_to THEN {structure.story, structure.body}
  ELSE {}

\* C25: the scope text selector returns the empty string when none of the
\* sections applicable to the scope has text after trimming, and also for a
\* scope tag it does not know.
C25_NoApplicableTextGivesEmptyString ==
  (/\ ScopeTextReturned
   /\ \A text \in ApplicableSections(call.applicable_to, call.document_structure) :
        strip(text) = <<>>) =>
    ret.value = <<>>

\* The scope tags the criteria list gives a criterion.
ScopeOf(criteria_id) ==
  LET i == CHOOSE k \in 1..Len(EVALUATION_CRITERIA) : EVALUATION_CRITERIA[k].name = criteria_id
  IN  EVALUATION_CRITERIA[i].applicable_to

\* The text selected for the criterion from the document of the run is empty.
ScopeTextEmpty(criteria_id) ==
  _get_evaluation_text(DocumentStructure(title, summary, paragraphs, full_text),
                       ScopeOf(criteria_id)) = <<>>

EntriesOf(category_id, criteria_id) ==
  SelectSeq(report[1].evaluations,
            LAMBDA e : e.categoryId = category_id /\ e.criteriaId = criteria_id)

\* C26: when the scope text selected for a criterion is empty, no oracle
\* call is made for the criterion; it is recorded once as a failure with
\* score 0.0, not retried, and the other criteria of the run are still
\* evaluated.
C26_EmptyScopeIsRecordedOnceWithoutCall ==
  (ValidDocument /\ Completed) =>
    /\ Returned
    /\ \A k \in 1..Len(CatalogOrder(sorted_categories)) :
         LET category_id == CatalogOrder(sorted_categories)[k][1]
             criteria_id == CatalogOrder(sorted_categories)[k][2]
         IN  /\ HasEntry(category_id, criteria_id)
             /\ ScopeTextEmpty(criteria_id) =>
                  /\ Len(EntriesOf(category_id, criteria_id)) = 1
                  /\ EntriesOf(category_id, criteria_id)[1].score = RZero
                  /\ \A i \in 1..Len(oracle_calls) :
                       oracle_calls[i].criteria_id # criteria_id

\* C27: every call of evaluate_document eventually returns a report,
\* provided each oracle call eventually returns a string or raises.
C27_EveryCallEventuallyReturns == <>Returned

\* The category ids of the two category lists, in order.
CategoryIdSeq(categories) == [i \in 1..Len(categories) |-> categories[i].id]

CategoryScoreIdSeq(scores) == [i \in 1..Len(scores) |-> scores[i].categoryId]

\* The two category lists name the same ids in the same order and every
\* evaluation belongs to a listed category.
ListsAligned(res) ==
  /\ Len(res.categories) = Len(res.categoryScores)
  /\ CategoryIdSeq(res.categories) = CategoryScoreIdSeq(res.categoryScores)
  /\ \A i \in 1..Len(res.evaluations) :
       res.evaluations[i].categoryId \in CategoryIds(res.categories)

\* C28: in every report returned by evaluate_document, categories and
\* categoryScores have the same length and list the same category ids in
\* the same order, and every entry of evaluations carries the categoryId of
\* a category listed in categories; the same holds of the result dict after
\* each iteration of the category loop.
C28_CategoryListsAreAligned ==
  /\ ListsAligned(result)
  /\ Returned => ListsAligned(report[1])

C28_Witness ==
  /\ Returned /\ ValidDocument /\ report[1].error = <<>>
  /\ \E i \in 1..Len(sorted_categories) : CategoryRaises(sorted_categories[i])
  /\ Len(report[1].categories) = Len(report[1].categoryScores)
  /\ Len(report[1].categories) < Len(sorted_categories)
  /\ oracle_script = <<OracleText(<<"PROBLEM:", "MAJOR">>)>>

ApiCallOver == call.op = "call_openai_api" /\ pc \in {"returned", "raised"}

Requests == SelectSeq(api_log, LAMBDA e : e.kind = "request")

\* Between two requests there is exactly one sleep, of min(2 * 2^attempt, 60)
\* seconds for the attempt that failed; no sleep follows the last request.
SleepsBetweenAttempts ==
  /\ \A i \in 1..Len(api_log) :
       IF i % 2 = 1 THEN api_log[i] = [kind |-> "request", n |-> (i - 1) \div 2]
       ELSE api_log[i] = [kind |-> "sleep", n |-> Delay((i - 2) \div 2)]
  /\ ApiCallOver => (api_log = <<>> \/ api_log[Len(api_log)].kind = "request")

\* C30: call_openai_api, for any configured OPENAI_MAX_RETRIES >= 0, makes
\* at most OPENAI_MAX_RETRIES attempts, returns the content of the first
\* attempt that yields one, waits min(2 * 2^attempt, 60) seconds between
\* failed attempts, and otherwise raises EvaluationError; it never returns
\* without content.
C30_RetriesAreBoundedAndEndWithContentOrError ==
  call.op = "call_openai_api" =>
    /\ Len(Requests) <= call.OPENAI_MAX_RETRIES
    /\ SleepsBetweenAttempts
    /\ ApiCallOver =>
         \/ pc = "raised" /\ exc = "EvaluationError"
         \/ pc = "returned" /\ ret.t = "str" /\ ret.s # <<>>

====
